---- MODULE Spec2Model ----
(***************************************************************************)
(* Model of the template importer and exporter of templatte:               *)
(*   ImportCommand.execute   (src/src/handlers/CommandHandler.ts)          *)
(*   ImportHelper            (src/src/helpers/importFunctions.ts)          *)
(*   ExportCommand.execute   (src/unnamed/part_002)                        *)
(* Spec: one invocation of /import.  SpecExport: one invocation of         *)
(* /export, whose file is then imported into another server.               *)
(* SpecConcurrent: two invocations of /import, interleaved at their awaits.*)
(* A behaviour of Spec is one invocation of /import: precondition checks,  *)
(* cleanup of the live channels and roles, download of the attached        *)
(* document, and the four creation phases of importTemplate.               *)
(* Every awaited Server API call is one step; its outcome (resolve or      *)
(* reject) is chosen nondeterministically.                                 *)
(*                                                                         *)
(* The command is one async function whose awaits are sequential, so a     *)
(* call and its outcome form one step.  interaction.editReply is taken to  *)
(* resolve.  channel.deletable and role.editable are read from the fetched *)
(* objects as given: any combination of them is explored.  Of an overwrite *)
(* only id and type are carried; allow and deny are copied into the calls  *)
(* unchanged by the code.                                                  *)
(***************************************************************************)
EXTENDS Integers, Sequences, FiniteSets, TLC

VARIABLES
    interaction,    \* [guild, admin, attachment]: what the invocation carries
    guild,          \* live server: [channels, systemChannelId, roles, everyoneId, botRole]
    remote,         \* the document behind attachment.url
    pc,             \* position of the command in execute / importTemplate
    i,              \* index of the running loop (outer loop in createCategoryChannels)
    j,              \* index of the inner loop of createCategoryChannels
    templateData,   \* the parsed document handed to importTemplate
    sortedRoles,    \* createRoles' sorted copy of template.roles
    roleMap,        \* ImportHelper.roleMap: role name -> new role id
    categoryMap,    \* ImportHelper.categoryMap: template category id -> new id
    deleteCalls,    \* every channel.delete() / role.delete() issued, in order
    createCalls,    \* every roles.create / channels.create issued, in order
    replies,        \* contents passed to interaction.editReply, in order
    thrown,         \* the error that reached execute's catch block ("" if none)
    exportInteraction,  \* [guild, admin]: what the /export invocation carries
    sourceGuild,    \* the server /export reads: [name, roles, channels]
    exportPc,       \* position of ExportCommand.execute ("idle": not invoked)
    rolesData,      \* ExportCommand.execute's rolesData
    exportReplies,  \* [content, files] passed to the export's editReply, in order
    running,        \* the invocation of /import whose code is executing
    suspended       \* a second invocation of /import, waiting at an await

exportVars == <<exportInteraction, sourceGuild, exportPc, rolesData, exportReplies>>

concurrentVars == <<running, suspended>>

importVars == <<interaction, guild, remote, pc, i, j, templateData, sortedRoles,
                roleMap, categoryMap, deleteCalls, createCalls, replies, thrown>>

vars == <<interaction, guild, remote, pc, i, j, templateData, sortedRoles,
          roleMap, categoryMap, deleteCalls, createCalls, replies, thrown,
          exportVars, concurrentVars>>

----------------------------------------------------------------------------
(* Bounds of the input space.                                              *)

MaxRoles == 2           \* Role Records in a document
MaxCategories == 2      \* Category Records in a document
MaxChannels == 1        \* Channel Records in one channels list
MaxGuildChannels == 2   \* live channels returned by guild.channels.fetch()
MaxGuildRoles == 3      \* live roles besides @everyone
MaxSourceRoles == 2     \* roles of the exported server besides @everyone
MaxSourceChannels == 3  \* channels of the exported server

SeqUpTo(S, n) == UNION {[1..k -> S] : k \in 0..n}

----------------------------------------------------------------------------
(* Template Document (interfaces of importFunctions.ts).                   *)

RoleNames == {"@everyone", "Admin", "Mod"}

\* The members of a Role Record besides name and position, in two settings.
RoleAttributes ==
    {[color |-> 0, hoist |-> FALSE, permissions |-> "0", mentionable |-> FALSE],
     [color |-> 255, hoist |-> TRUE, permissions |-> "8", mentionable |-> TRUE]}

TemplateRole ==
    {[name |-> n, color |-> a.color, hoist |-> a.hoist, position |-> p,
      permissions |-> a.permissions, mentionable |-> a.mentionable] :
        n \in RoleNames, p \in {1, 2}, a \in RoleAttributes}

\* Overwrites: role names, the default role's name, a member id.
OverwriteAdmin == [id |-> "Admin", type |-> 0]
OverwriteMod == [id |-> "Mod", type |-> 0]
OverwriteEveryone == [id |-> "@everyone", type |-> 0]
OverwriteMember == [id |-> "m1", type |-> 1]

TemplateChannel ==
    {[name |-> "chat", type |-> 0, position |-> 0,
      permissionOverwrites |-> <<OverwriteAdmin, OverwriteMod, OverwriteMember>>]}

ChannelLists == SeqUpTo(TemplateChannel, MaxChannels)

\* hasChannels = FALSE: the record carries no `channels` property.
TemplateCategory ==
    {[id |-> c, name |-> "General", position |-> 0,
      permissionOverwrites |-> <<OverwriteEveryone, OverwriteAdmin>>,
      hasChannels |-> h, channels |-> ch] :
        c \in {"c1", "c2"}, h \in BOOLEAN, ch \in ChannelLists}

WellFormedCategory(c) == c.hasChannels \/ c.channels = <<>>

\* A parsed JSON body: null, or an object whose optional members are flagged.
NullTemplate ==
    [isNull |-> TRUE, hasRoles |-> FALSE, roles |-> <<>>,
     hasCategories |-> FALSE, categories |-> <<>>,
     hasUncategorized |-> FALSE, uncategorizedChannels |-> <<>>]

ServerTemplate(hr, r, hc, c, hu, u) ==
    [isNull |-> FALSE, hasRoles |-> hr, roles |-> r,
     hasCategories |-> hc, categories |-> c,
     hasUncategorized |-> hu, uncategorizedChannels |-> u]

RoleLists == SeqUpTo(TemplateRole, MaxRoles)

CategoryLists ==
    {cs \in SeqUpTo(TemplateCategory, MaxCategories) :
        \A k \in DOMAIN cs : WellFormedCategory(cs[k])}

\* Documents that pass importTemplate's check, in two families: the role
\* lists and the uncategorized member vary over one category with one
\* channel, or the category lists vary under one role.
OneCategory ==
    <<[id |-> "c1", name |-> "General", position |-> 0,
       permissionOverwrites |-> <<OverwriteEveryone, OverwriteAdmin>>,
       hasChannels |-> TRUE, channels |-> <<CHOOSE c \in TemplateChannel : TRUE>>]>>

OneChannel == <<CHOOSE c \in TemplateChannel : TRUE>>

OneRole ==
    <<[name |-> "Admin", color |-> 0, hoist |-> FALSE, position |-> 1,
       permissions |-> "0", mentionable |-> FALSE]>>

RoleTemplates ==
    {ServerTemplate(TRUE, r, TRUE, OneCategory, u[1], u[2]) :
        r \in RoleLists,
        u \in {<<FALSE, <<>> >>, <<TRUE, <<>> >>, <<TRUE, OneChannel>>}}

CategoryTemplates ==
    {ServerTemplate(TRUE, OneRole, TRUE, c, FALSE, <<>>) : c \in CategoryLists}

\* Documents that fail importTemplate's check.
InvalidTemplates ==
    {NullTemplate,
     ServerTemplate(FALSE, <<>>, TRUE, OneCategory, TRUE, OneChannel),
     ServerTemplate(TRUE, OneRole, FALSE, <<>>, TRUE, OneChannel),
     ServerTemplate(FALSE, <<>>, FALSE, <<>>, FALSE, <<>>)}

SmallTemplate == ServerTemplate(TRUE, OneRole, TRUE, OneCategory, FALSE, <<>>)

----------------------------------------------------------------------------
(* Live server, as the fetches of execute see it.                          *)

EveryoneId == "everyone"

\* present = FALSE: the fetched collection holds null under that key.
GuildChannel(n) ==
    {[id |-> "ch" \o ToString(n), present |-> p, deletable |-> d] :
        p \in BOOLEAN, d \in BOOLEAN}

GuildRole(n) ==
    {[id |-> "r" \o ToString(n), position |-> p, editable |-> e] :
        p \in {1, 2}, e \in BOOLEAN}

EveryoneRole == {[id |-> EveryoneId, position |-> 0, editable |-> e] : e \in BOOLEAN}

GuildChannelLists ==
    UNION {{cs \in [1..k -> UNION {GuildChannel(n) : n \in 1..k}] :
              \A n \in 1..k : cs[n] \in GuildChannel(n) /\ (cs[n].present \/ ~cs[n].deletable)} :
           k \in 0..MaxGuildChannels}

GuildRoleLists ==
    UNION {{rs \in [1..(k + 1) -> EveryoneRole \cup UNION {GuildRole(n) : n \in 1..k}] :
              /\ rs[1] \in EveryoneRole
              /\ \A n \in 1..k : rs[n + 1] \in GuildRole(n)} :
           k \in 0..MaxGuildRoles}

\* systemChannelId and botRole are "" when null / undefined.
Guild(cs, sys, rs, bot) ==
    [channels |-> cs, systemChannelId |-> sys, roles |-> rs,
     everyoneId |-> EveryoneId, botRole |-> bot]

Ids(s) == {s[k].id : k \in DOMAIN s}

EmptyGuild ==
    Guild(<<>>, "", <<[id |-> EveryoneId, position |-> 0, editable |-> FALSE]>>, "")

FixedChannels == <<[id |-> "ch1", present |-> TRUE, deletable |-> TRUE]>>

FixedRoles ==
    <<[id |-> EveryoneId, position |-> 0, editable |-> FALSE],
      [id |-> "r1", position |-> 1, editable |-> TRUE],
      [id |-> "r2", position |-> 2, editable |-> FALSE]>>

FixedGuild == Guild(FixedChannels, "", FixedRoles, "r2")

ChannelGuilds ==
    UNION {{Guild(cs, sys, FixedRoles, "r2") : sys \in {""} \cup Ids(cs)} :
           cs \in GuildChannelLists}

RoleGuilds ==
    UNION {{Guild(FixedChannels, "", rs, bot) : bot \in {""} \cup Ids(rs)} :
           rs \in GuildRoleLists}

----------------------------------------------------------------------------
(* Invocations.                                                            *)

Interactions == [guild : BOOLEAN, admin : BOOLEAN, attachment : BOOLEAN]

Accepted == [guild |-> TRUE, admin |-> TRUE, attachment |-> TRUE]

Input(n, g, t) == [interaction |-> n, guild |-> g, remote |-> t]

\* The invocations explored: every precondition outcome and every document
\* that fails validation over one populated server; the channel and the role
\* collections varied under a null document; the role lists and the category
\* lists of the document varied over an empty server.
Inputs ==
    {Input(n, FixedGuild, SmallTemplate) : n \in Interactions}
    \cup {Input(Accepted, FixedGuild, t) : t \in InvalidTemplates}
    \cup {Input(Accepted, g, NullTemplate) : g \in ChannelGuilds \cup RoleGuilds}
    \cup {Input(Accepted, EmptyGuild, t) : t \in RoleTemplates \cup CategoryTemplates}

----------------------------------------------------------------------------
(* Messages and errors.                                                    *)

ReplyNoGuild == "This command can only be used in a server!"
ReplyNotAdmin == "You need Administrator permission to use this command!"
ReplyNoAttachment == "Please provide a template file!"
ReplyCleanup == "Starting server cleanup..."
ReplyImporting == "Server cleanup completed! Starting template import..."
ReplySuccess == "Server template has been successfully imported!"
ReplyError == "An error occurred during the import process."

InvalidTemplateFormat == "Invalid template format"
NotIterable == "TypeError: categoryData.channels is not iterable"
FetchChannelsRejected == "guild.channels.fetch() rejected"
FetchRolesRejected == "guild.roles.fetch() rejected"
DownloadRejected == "fetch(attachment.url) or response.json() rejected"

----------------------------------------------------------------------------
(* State after construction: the command has been invoked, nothing ran.    *)

EmptyMap == [k \in {} |-> ""]

\* The /import command is at `at` with a new ImportHelper; the server has
\* received no call.
Invoked(in, at) ==
    /\ interaction = in.interaction
    /\ guild = in.guild
    /\ remote = in.remote
    /\ pc = at
    /\ i = 0
    /\ j = 0
    /\ templateData = NullTemplate
    /\ sortedRoles = <<>>
    /\ roleMap = EmptyMap
    /\ categoryMap = EmptyMap
    /\ deleteCalls = <<>>
    /\ createCalls = <<>>
    /\ replies = <<>>
    /\ thrown = ""

\* /export is not invoked.
NoExport ==
    /\ exportInteraction = [guild |-> FALSE, admin |-> FALSE]
    /\ sourceGuild = [name |-> "", roles |-> <<>>, channels |-> <<>>]
    /\ exportPc = "idle"
    /\ rolesData = <<>>
    /\ exportReplies = <<>>

\* No second invocation of /import.
NoInvocation == [pc |-> "none"]

Alone == running = 1 /\ suspended = NoInvocation

Init ==
    /\ \E in \in Inputs : Invoked(in, "start")
    /\ NoExport
    /\ Alone

----------------------------------------------------------------------------
(* ImportCommand.execute: preconditions and cleanup.                       *)

\* Mutant: the invoker's permission is not checked.
PreconditionFailureNoAdminCheck(n) ==
    IF ~n.guild THEN ReplyNoGuild
    ELSE IF ~n.attachment THEN ReplyNoAttachment
    ELSE ""

\* The message of the first failing precondition, "" when all hold.
PreconditionFailure(n) ==
    IF ~n.guild THEN ReplyNoGuild
    ELSE IF ~n.admin THEN ReplyNotAdmin
    ELSE IF ~n.attachment THEN ReplyNoAttachment
    ELSE ""

CheckPreconditions ==
    /\ pc = "start"
    /\ IF PreconditionFailure(interaction) # ""
       THEN /\ replies' = Append(replies, PreconditionFailure(interaction))
            /\ pc' = "returned"
       ELSE /\ replies' = Append(replies, ReplyCleanup)
            /\ pc' = "fetchChannels"
    /\ UNCHANGED <<exportVars, concurrentVars>>
    /\ UNCHANGED <<interaction, guild, remote, i, j, templateData, sortedRoles,
                   roleMap, categoryMap, deleteCalls, createCalls, thrown>>

\* await guild.channels.fetch()
FetchChannels ==
    /\ pc = "fetchChannels"
    /\ \E ok \in BOOLEAN :
        IF ok THEN /\ pc' = "cleanChannels"
                   /\ i' = 1
                   /\ thrown' = thrown
              ELSE /\ pc' = "catch"
                   /\ i' = 0
                   /\ thrown' = FetchChannelsRejected
    /\ UNCHANGED <<exportVars, concurrentVars>>
    /\ UNCHANGED <<interaction, guild, remote, j, templateData, sortedRoles,
                   roleMap, categoryMap, deleteCalls, createCalls, replies>>

ChannelEligible(g, ch) ==
    ch.present /\ ch.id # g.systemChannelId /\ ch.deletable

DeleteCall(kind, id, ok) == [kind |-> kind, id |-> id, ok |-> ok]

\* Mutant: a rejected delete() is not caught at the call.
AfterDeleteAborts(p, ok) == IF ok THEN p ELSE "catch"

\* await x.delete().catch(console.error): a rejection is logged; the loop goes on.
AfterDelete(p, ok) == p

\* One iteration of the loop over the fetched channels.
CleanChannel ==
    /\ pc = "cleanChannels"
    /\ i <= Len(guild.channels)
    /\ IF ChannelEligible(guild, guild.channels[i])
       THEN \E ok \in BOOLEAN :
                /\ deleteCalls' =
                       Append(deleteCalls, DeleteCall("channel", guild.channels[i].id, ok))
                /\ pc' = AfterDelete(pc, ok)
       ELSE UNCHANGED <<deleteCalls, pc>>
    /\ i' = i + 1
    /\ UNCHANGED <<exportVars, concurrentVars>>
    /\ UNCHANGED <<interaction, guild, remote, j, templateData, sortedRoles,
                   roleMap, categoryMap, createCalls, replies, thrown>>

\* await guild.roles.fetch(), after the channel loop
FetchRoles ==
    /\ pc = "cleanChannels"
    /\ i > Len(guild.channels)
    /\ \E ok \in BOOLEAN :
        IF ok THEN /\ pc' = "cleanRoles"
                   /\ i' = 1
                   /\ thrown' = thrown
              ELSE /\ pc' = "catch"
                   /\ i' = 0
                   /\ thrown' = FetchRolesRejected
    /\ UNCHANGED <<exportVars, concurrentVars>>
    /\ UNCHANGED <<interaction, guild, remote, j, templateData, sortedRoles,
                   roleMap, categoryMap, deleteCalls, createCalls, replies>>

\* botRole?.position || 0
BotPosition(g) ==
    IF g.botRole = "" THEN 0
    ELSE LET k == CHOOSE k \in DOMAIN g.roles : g.roles[k].id = g.botRole
         IN  g.roles[k].position

\* Mutant: the role's position is not compared with the bot's.
RoleEligibleAnyPosition(g, r) ==
    /\ r.id # g.everyoneId
    /\ r.id # g.botRole
    /\ r.editable

RoleEligible(g, r) ==
    /\ r.id # g.everyoneId
    /\ r.id # g.botRole
    /\ r.position < BotPosition(g)
    /\ r.editable

\* One iteration of the loop over the fetched roles.
CleanRole ==
    /\ pc = "cleanRoles"
    /\ i <= Len(guild.roles)
    /\ IF RoleEligible(guild, guild.roles[i])
       THEN \E ok \in BOOLEAN :
                /\ deleteCalls' =
                       Append(deleteCalls, DeleteCall("role", guild.roles[i].id, ok))
                /\ pc' = AfterDelete(pc, ok)
       ELSE UNCHANGED <<deleteCalls, pc>>
    /\ i' = i + 1
    /\ UNCHANGED <<exportVars, concurrentVars>>
    /\ UNCHANGED <<interaction, guild, remote, j, templateData, sortedRoles,
                   roleMap, categoryMap, createCalls, replies, thrown>>

\* fetch(attachment.url), response.json(), the progress reply, after the role loop
DownloadTemplate ==
    /\ pc = "cleanRoles"
    /\ i > Len(guild.roles)
    /\ \E ok \in BOOLEAN :
        IF ok THEN /\ templateData' = remote
                   /\ replies' = Append(replies, ReplyImporting)
                   /\ pc' = "importTemplate"
                   /\ thrown' = thrown
              ELSE /\ templateData' = templateData
                   /\ replies' = replies
                   /\ pc' = "catch"
                   /\ thrown' = DownloadRejected
    /\ i' = 0
    /\ UNCHANGED <<exportVars, concurrentVars>>
    /\ UNCHANGED <<interaction, guild, remote, j, sortedRoles,
                   roleMap, categoryMap, deleteCalls, createCalls>>

----------------------------------------------------------------------------
(* ImportHelper.                                                           *)

GuildCategory == 4      \* ChannelType.GuildCategory

\* Mutant: `categories` is not checked.
InvalidTemplateRolesOnly(t) == t.isNull \/ ~t.hasRoles

\* !template || !template.roles || !template.categories
InvalidTemplate(t) == t.isNull \/ ~t.hasRoles \/ ~t.hasCategories

\* Mutant: the comparator of an ascending sort.
ByPositionAscending(a, b) == a.position - b.position

\* (a, b) => b.position - a.position
ByPosition(a, b) == b.position - a.position

\* [...roles].sort(ByPosition): Array.prototype.sort is stable, so r, the
\* later element, goes behind every element the comparator does not put
\* after it.
RECURSIVE InsertRole(_, _)
InsertRole(r, s) ==
    IF s = <<>> THEN <<r>>
    ELSE IF ByPosition(Head(s), r) <= 0
         THEN <<Head(s)>> \o InsertRole(r, Tail(s))
         ELSE <<r>> \o s

RECURSIVE SortRoles(_)
SortRoles(roles) ==
    IF roles = <<>> THEN <<>>
    ELSE InsertRole(roles[Len(roles)], SortRoles(SubSeq(roles, 1, Len(roles) - 1)))

\* Mutant: createRoles awaited after createCategories.
NextPhaseCategoriesFirst(p) ==
    CASE p = "importTemplate" -> "createCategories"
      [] p = "createCategories" -> "createRoles"
      [] p = "createRoles" -> "createCategoryChannels"
      [] p = "createCategoryChannels" -> "createUncategorizedChannels"
      [] OTHER -> "imported"

\* The order of the awaited phases of importTemplate.
NextPhase(p) ==
    CASE p = "importTemplate" -> "createRoles"
      [] p = "createRoles" -> "createCategories"
      [] p = "createCategories" -> "createCategoryChannels"
      [] p = "createCategoryChannels" -> "createUncategorizedChannels"
      [] OTHER -> "imported"

\* Map.prototype.get; "" stands for undefined.
MapGet(m, k) == IF k \in DOMAIN m THEN m[k] ELSE ""

\* Mutant: the overwrite's id is sent as stored.
ResolveIdUnchanged(rm, id) == id

\* this.roleMap.get(perm.id) || perm.id
ResolveId(rm, id) == IF MapGet(rm, id) # "" THEN MapGet(rm, id) ELSE id

mapPermissionOverwrites(permissions, rm) ==
    [k \in DOMAIN permissions |->
        [id |-> ResolveId(rm, permissions[k].id), type |-> permissions[k].type]]

\* Mutant: an existing entry is kept.
MapSetKeepFirst(m, k, v) ==
    [x \in DOMAIN m \cup {k} |-> IF x \in DOMAIN m THEN m[x] ELSE v]

\* Map.prototype.set
MapSet(m, k, v) == [x \in DOMAIN m \cup {k} |-> IF x = k THEN v ELSE m[x]]

\* The identifier the server assigns to the entity a call creates.
NewId(calls) == "id" \o ToString(Len(calls) + 1)

\* src: the place of the record in the document (<<i>>, or <<i, j>> for a
\* channel nested in category i); for a role, its place in sortedRoles.
CreateCall(kind, src, args, ok, id) ==
    [kind |-> kind, src |-> src, args |-> args, ok |-> ok, id |-> id]

\* importTemplate up to its first await.
ImportTemplate ==
    /\ pc = "importTemplate"
    /\ IF InvalidTemplate(templateData)
       THEN /\ thrown' = InvalidTemplateFormat
            /\ pc' = "catch"
            /\ sortedRoles' = sortedRoles
            /\ i' = 0
       ELSE /\ thrown' = thrown
            /\ pc' = NextPhase(pc)
            /\ sortedRoles' = SortRoles(templateData.roles)
            /\ i' = 1
    /\ j' = 1
    /\ UNCHANGED <<exportVars, concurrentVars>>
    /\ UNCHANGED <<interaction, guild, remote, templateData,
                   roleMap, categoryMap, deleteCalls, createCalls, replies>>

\* Mutant: no record is skipped.
SkipRoleNever(roleData) == FALSE

SkipRole(roleData) == roleData.name = "@everyone"

\* The options object passed to guild.roles.create.
RoleOptions(roleData) ==
    [name |-> roleData.name, color |-> roleData.color, hoist |-> roleData.hoist,
     position |-> roleData.position, permissions |-> roleData.permissions,
     mentionable |-> roleData.mentionable]

\* One iteration of createRoles' loop.
CreateRolesStep ==
    /\ pc = "createRoles"
    /\ i <= Len(sortedRoles)
    /\ LET roleData == sortedRoles[i] IN
        IF SkipRole(roleData)
        THEN UNCHANGED <<createCalls, roleMap>>
        ELSE \E ok \in BOOLEAN :
            LET id == IF ok THEN NewId(createCalls) ELSE "" IN
            /\ createCalls' =
                   Append(createCalls, CreateCall("role", <<i>>, RoleOptions(roleData), ok, id))
            /\ roleMap' = IF ok THEN MapSet(roleMap, roleData.name, id) ELSE roleMap
    /\ i' = i + 1
    /\ UNCHANGED <<exportVars, concurrentVars>>
    /\ UNCHANGED <<interaction, guild, remote, pc, j, templateData, sortedRoles,
                   categoryMap, deleteCalls, replies, thrown>>

\* One iteration of createCategories' loop.
CreateCategoriesStep ==
    /\ pc = "createCategories"
    /\ i <= Len(templateData.categories)
    /\ LET categoryData == templateData.categories[i]
           args == [name |-> categoryData.name,
                    type |-> GuildCategory,
                    position |-> categoryData.position,
                    parent |-> "",
                    permissionOverwrites |->
                        mapPermissionOverwrites(categoryData.permissionOverwrites, roleMap)]
       IN \E ok \in BOOLEAN :
            LET id == IF ok THEN NewId(createCalls) ELSE "" IN
            /\ createCalls' =
                   Append(createCalls, CreateCall("category", <<i>>, args, ok, id))
            /\ categoryMap' =
                   IF ok THEN MapSet(categoryMap, categoryData.id, id) ELSE categoryMap
    /\ i' = i + 1
    /\ UNCHANGED <<exportVars, concurrentVars>>
    /\ UNCHANGED <<interaction, guild, remote, pc, j, templateData, sortedRoles,
                   roleMap, deleteCalls, replies, thrown>>

\* Mutant: the unmapped category is not skipped.
CategoryMappedAlways(cm, categoryData) == TRUE

\* const categoryId = this.categoryMap.get(categoryData.id); if (!categoryId) continue
CategoryMapped(cm, categoryData) == MapGet(cm, categoryData.id) # ""

\* One step of createCategoryChannels: the outer loop's skip, the start of
\* the inner loop, one inner iteration, or the end of the inner loop.
CreateCategoryChannelsStep ==
    /\ pc = "createCategoryChannels"
    /\ i <= Len(templateData.categories)
    /\ LET categoryData == templateData.categories[i] IN
        IF ~CategoryMapped(categoryMap, categoryData)
        THEN /\ i' = i + 1
             /\ j' = 1
             /\ UNCHANGED <<pc, createCalls, thrown>>
        ELSE IF ~categoryData.hasChannels
        THEN /\ thrown' = NotIterable
             /\ pc' = "catch"
             /\ i' = 0
             /\ j' = 0
             /\ UNCHANGED createCalls
        ELSE IF j > Len(categoryData.channels)
        THEN /\ i' = i + 1
             /\ j' = 1
             /\ UNCHANGED <<pc, createCalls, thrown>>
        ELSE LET channelData == categoryData.channels[j]
                 args == [name |-> channelData.name,
                          type |-> channelData.type,
                          position |-> channelData.position,
                          parent |-> MapGet(categoryMap, categoryData.id),
                          permissionOverwrites |->
                              mapPermissionOverwrites(channelData.permissionOverwrites,
                                                      roleMap)]
             IN \E ok \in BOOLEAN :
                  /\ createCalls' =
                         Append(createCalls,
                                CreateCall("channel", <<i, j>>, args, ok,
                                           IF ok THEN NewId(createCalls) ELSE ""))
                  /\ j' = j + 1
                  /\ UNCHANGED <<pc, i, thrown>>
    /\ UNCHANGED <<exportVars, concurrentVars>>
    /\ UNCHANGED <<interaction, guild, remote, templateData, sortedRoles,
                   roleMap, categoryMap, deleteCalls, replies>>

\* One iteration of createUncategorizedChannels' loop.
CreateUncategorizedChannelsStep ==
    /\ pc = "createUncategorizedChannels"
    /\ i <= Len(templateData.uncategorizedChannels)
    /\ LET channelData == templateData.uncategorizedChannels[i]
           args == [name |-> channelData.name,
                    type |-> channelData.type,
                    position |-> channelData.position,
                    parent |-> "",
                    permissionOverwrites |->
                        mapPermissionOverwrites(channelData.permissionOverwrites, roleMap)]
       IN \E ok \in BOOLEAN :
            createCalls' =
                Append(createCalls,
                       CreateCall("channel", <<i>>, args, ok,
                                  IF ok THEN NewId(createCalls) ELSE ""))
    /\ i' = i + 1
    /\ UNCHANGED <<exportVars, concurrentVars>>
    /\ UNCHANGED <<interaction, guild, remote, pc, j, templateData, sortedRoles,
                   roleMap, categoryMap, deleteCalls, replies, thrown>>

\* The list the loop of phase p runs over.
PhaseList(p) ==
    CASE p = "createRoles" -> sortedRoles
      [] p = "createCategories" -> templateData.categories
      [] p = "createCategoryChannels" -> templateData.categories
      [] OTHER -> templateData.uncategorizedChannels

Phases ==
    {"createRoles", "createCategories", "createCategoryChannels",
     "createUncategorizedChannels"}

\* A phase's loop has ended: its promise resolves and importTemplate goes on
\* to the next one; createUncategorizedChannels runs only if the document
\* has the member.
PhaseReturn ==
    /\ pc \in Phases
    /\ i > Len(PhaseList(pc))
    /\ pc' = IF /\ NextPhase(pc) = "createUncategorizedChannels"
                /\ ~templateData.hasUncategorized
             THEN "imported"
             ELSE NextPhase(pc)
    /\ i' = IF pc' = "imported" THEN 0 ELSE 1
    /\ j' = IF pc' = "imported" THEN 0 ELSE 1
    /\ UNCHANGED <<exportVars, concurrentVars>>
    /\ UNCHANGED <<interaction, guild, remote, templateData, sortedRoles, roleMap,
                   categoryMap, deleteCalls, createCalls, replies, thrown>>

\* execute after importTemplate resolved.
ReportSuccess ==
    /\ pc = "imported"
    /\ replies' = Append(replies, ReplySuccess)
    /\ pc' = "done"
    /\ UNCHANGED <<exportVars, concurrentVars>>
    /\ UNCHANGED <<interaction, guild, remote, i, j, templateData, sortedRoles,
                   roleMap, categoryMap, deleteCalls, createCalls, thrown>>

\* execute's catch block.
Catch ==
    /\ pc = "catch"
    /\ replies' = Append(replies, ReplyError)
    /\ pc' = "done"
    /\ UNCHANGED <<exportVars, concurrentVars>>
    /\ UNCHANGED <<interaction, guild, remote, i, j, templateData, sortedRoles,
                   roleMap, categoryMap, deleteCalls, createCalls, thrown>>

Next ==
    \/ CheckPreconditions
    \/ FetchChannels
    \/ CleanChannel
    \/ FetchRoles
    \/ CleanRole
    \/ DownloadTemplate
    \/ ImportTemplate
    \/ CreateRolesStep
    \/ CreateCategoriesStep
    \/ CreateCategoryChannelsStep
    \/ CreateUncategorizedChannelsStep
    \/ PhaseReturn
    \/ ReportSuccess
    \/ Catch

Spec == Init /\ [][Next]_vars

----------------------------------------------------------------------------
(* ExportCommand.execute (src/unnamed/part_002), and the import of the     *)
(* file it produces into another server.                                   *)

SourceGuildId == "g1"

SourceRoleNames == {"Admin", "r1"}

\* The default role carries the server's id.
SourceEveryone ==
    [id |-> SourceGuildId, name |-> "@everyone", color |-> 0, hoist |-> FALSE,
     position |-> 0, permissions |-> 0, mentionable |-> FALSE]

SourceRole(n) ==
    {[id |-> "r" \o ToString(n), name |-> nm, color |-> 255, hoist |-> TRUE,
      position |-> n, permissions |-> 8, mentionable |-> TRUE] :
        nm \in SourceRoleNames}

SourceRoleLists ==
    UNION {{rs \in [1..(k + 1) -> {SourceEveryone} \cup UNION {SourceRole(n) : n \in 1..k}] :
              /\ rs[1] = SourceEveryone
              /\ \A n \in 1..k : rs[n + 1] \in SourceRole(n)} :
           k \in 0..MaxSourceRoles}

\* The overwrites of every live channel: one for the default role, one for
\* each role of the server, one for a member.
SourceOverwrites(rs) ==
    [k \in DOMAIN rs |-> [id |-> rs[k].id, type |-> 0]] \o <<[id |-> "m1", type |-> 1]>>

\* kind: "null" (the fetched collection holds null under the key),
\* "category" or "text"; parent: 0, or the place of the parent category.
SourceChannel(n, kind, parent, rs) ==
    [present |-> kind # "null",
     id |-> "ch" \o ToString(n),
     name |-> "n" \o ToString(n),
     type |-> IF kind = "category" THEN GuildCategory ELSE 0,
     position |-> n,
     parentId |-> IF parent = 0 THEN "" ELSE "ch" \o ToString(parent),
     permissionOverwrites |-> IF kind = "null" THEN <<>> ELSE SourceOverwrites(rs)]

\* Only a text channel has a parent, and its parent is a category.
ChannelShapes(k) ==
    {sh \in [kind : [1..k -> {"null", "category", "text"}], parent : [1..k -> 0..k]] :
        \A n \in 1..k :
            sh.parent[n] # 0 =>
                sh.kind[n] = "text" /\ sh.kind[sh.parent[n]] = "category"}

SourceChannelLists(rs) ==
    UNION {{[n \in 1..k |-> SourceChannel(n, sh.kind[n], sh.parent[n], rs)] :
              sh \in ChannelShapes(k)} :
           k \in 0..MaxSourceChannels}

SourceGuild(rs, cs) == [name |-> "source", roles |-> rs, channels |-> cs]

SourceGuilds ==
    UNION {{SourceGuild(rs, cs) : cs \in SourceChannelLists(rs)} : rs \in SourceRoleLists}

ExportInteractions == [guild : BOOLEAN, admin : BOOLEAN]

ExportAccepted == [guild |-> TRUE, admin |-> TRUE]

FixedSource ==
    SourceGuild(<<SourceEveryone>>, <<SourceChannel(1, "text", 0, <<SourceEveryone>>)>>)

\* Every precondition outcome over one server; every server under an
\* accepted invocation.
ExportInputs ==
    {[interaction |-> n, guild |-> FixedSource] : n \in ExportInteractions}
    \cup {[interaction |-> ExportAccepted, guild |-> g] : g \in SourceGuilds}

\* The server the exported file is imported into: one channel that is not
\* deletable, no role besides @everyone.
Destination ==
    Guild(<<[id |-> "ch1", present |-> TRUE, deletable |-> FALSE]>>, "",
          <<[id |-> EveryoneId, position |-> 0, editable |-> FALSE]>>, "")

ExportSuccess == "Server template exported successfully!"
ExportError ==
    "An error occurred while exporting the server template. Please try again later."

\* The /export command has been invoked; /import has not.
InitExport ==
    /\ Invoked(Input(Accepted, Destination, NullTemplate), "idle")
    /\ \E in \in ExportInputs :
          /\ exportInteraction = in.interaction
          /\ sourceGuild = in.guild
    /\ exportPc = "start"
    /\ rolesData = <<>>
    /\ exportReplies = <<>>
    /\ Alone

ExportReply(content, files) == [content |-> content, files |-> files]

\* deferReply, the permission check and the guild check.
ExportCheck ==
    /\ exportPc = "start"
    /\ IF ~exportInteraction.admin
       THEN /\ exportReplies' = Append(exportReplies, ExportReply(ReplyNotAdmin, <<>>))
            /\ exportPc' = "returned"
       ELSE IF ~exportInteraction.guild
       THEN /\ exportReplies' = Append(exportReplies, ExportReply(ReplyNoGuild, <<>>))
            /\ exportPc' = "returned"
       ELSE /\ exportReplies' = exportReplies
            /\ exportPc' = "fetchRoles"
    /\ UNCHANGED <<importVars, concurrentVars, exportInteraction, sourceGuild, rolesData>>

\* BitField.toJSON of a bigint bit field: its decimal string.
PermissionsToJSON(bitfield) == ToString(bitfield)

ExportRole(role) ==
    [name |-> role.name, color |-> role.color, hoist |-> role.hoist,
     position |-> role.position,
     permissions |-> PermissionsToJSON(role.permissions),
     mentionable |-> role.mentionable]

\* await guild.roles.fetch(), and roles.map
ExportFetchRoles ==
    /\ exportPc = "fetchRoles"
    /\ \E ok \in BOOLEAN :
        IF ok THEN /\ rolesData' = [k \in DOMAIN sourceGuild.roles |->
                                       ExportRole(sourceGuild.roles[k])]
                   /\ exportPc' = "fetchChannels"
              ELSE /\ rolesData' = rolesData
                   /\ exportPc' = "catch"
    /\ UNCHANGED <<importVars, concurrentVars, exportInteraction, sourceGuild,
                   exportReplies>>

\* Mutant: a role-scoped overwrite is written under a role name.
ExportOverwriteByName(perm) ==
    [id |-> IF perm.type = 0 THEN "Admin" ELSE perm.id, type |-> perm.type]

\* perm => ({id: perm.id, type: perm.type, allow, deny})
ExportOverwrite(perm) == [id |-> perm.id, type |-> perm.type]

\* [...channel!.permissionOverwrites.cache.values()].map(...)
ExportOverwrites(channel) ==
    [k \in DOMAIN channel.permissionOverwrites |->
        ExportOverwrite(channel.permissionOverwrites[k])]

ExportChannel(channel) ==
    [name |-> channel.name, type |-> channel.type, position |-> channel.position,
     permissionOverwrites |-> ExportOverwrites(channel)]

MapSeq(F(_), s) == [k \in DOMAIN s |-> F(s[k])]

\* channel?.type === 4
IsCategoryChannel(channel) == channel.present /\ channel.type = GuildCategory

\* ch?.parentId === category?.id
ChildOf(ch, category) == ch.present /\ ch.parentId = category.id

\* Mutant: the channel's type is not looked at.
IsUncategorizedAnyType(channel) == ~channel.present \/ channel.parentId = ""

\* !channel?.parentId && channel?.type !== 4
IsUncategorized(channel) ==
    /\ ~channel.present \/ channel.parentId = ""
    /\ ~channel.present \/ channel.type # GuildCategory

ExportCategory(channels, category) ==
    [id |-> category.id, name |-> category.name, position |-> category.position,
     permissionOverwrites |-> ExportOverwrites(category),
     channels |-> MapSeq(ExportChannel,
                         SelectSeq(channels, LAMBDA ch : ChildOf(ch, category)))]

\* The template object; exportedAt, a time stamp, is left out.
ExportTemplate(g, rd) ==
    [name |-> g.name,
     roles |-> rd,
     categories |->
         MapSeq(LAMBDA c : ExportCategory(g.channels, c),
                SelectSeq(g.channels, IsCategoryChannel)),
     uncategorizedChannels |->
         MapSeq(ExportChannel, SelectSeq(g.channels, IsUncategorized))]

\* channel!.permissionOverwrites of a null entry that passed the filter of
\* uncategorizedChannels: a TypeError.
ExportThrows(g) ==
    \E k \in DOMAIN g.channels :
        IsUncategorized(g.channels[k]) /\ ~g.channels[k].present

\* await guild.channels.fetch(), the template object, JSON.stringify and the
\* reply that carries the file.
ExportFetchChannels ==
    /\ exportPc = "fetchChannels"
    /\ \E ok \in BOOLEAN :
        IF ok /\ ~ExportThrows(sourceGuild)
        THEN /\ exportReplies' =
                   Append(exportReplies,
                          ExportReply(ExportSuccess,
                                      <<ExportTemplate(sourceGuild, rolesData)>>))
             /\ exportPc' = "done"
        ELSE /\ exportReplies' = exportReplies
             /\ exportPc' = "catch"
    /\ UNCHANGED <<importVars, concurrentVars, exportInteraction, sourceGuild,
                   rolesData>>

\* The catch block of ExportCommand.execute.
ExportCatch ==
    /\ exportPc = "catch"
    /\ exportReplies' = Append(exportReplies, ExportReply(ExportError, <<>>))
    /\ exportPc' = "done"
    /\ UNCHANGED <<importVars, concurrentVars, exportInteraction, sourceGuild,
                   rolesData>>

\* The file of the last reply, <<>> if it carries none.
ExportedFiles ==
    IF exportReplies = <<>> THEN <<>> ELSE exportReplies[Len(exportReplies)].files

\* response.json() of the exported file: every member the importer reads
\* is present.
ParseTemplate(t) ==
    ServerTemplate(TRUE, t.roles,
                   TRUE, [k \in DOMAIN t.categories |->
                             [id |-> t.categories[k].id,
                              name |-> t.categories[k].name,
                              position |-> t.categories[k].position,
                              permissionOverwrites |->
                                  t.categories[k].permissionOverwrites,
                              hasChannels |-> TRUE,
                              channels |-> t.categories[k].channels]],
                   TRUE, t.uncategorizedChannels)

\* An administrator of the destination server invokes /import with the
\* exported file attached.
Attach ==
    /\ exportPc = "done"
    /\ ExportedFiles # <<>>
    /\ pc = "idle"
    /\ remote' = ParseTemplate(ExportedFiles[1])
    /\ pc' = "start"
    /\ UNCHANGED <<interaction, guild, i, j, templateData, sortedRoles, roleMap,
                   categoryMap, deleteCalls, createCalls, replies, thrown>>
    /\ UNCHANGED <<exportVars, concurrentVars>>

NextExport ==
    \/ ExportCheck
    \/ ExportFetchRoles
    \/ ExportFetchChannels
    \/ ExportCatch
    \/ Attach
    \/ Next

SpecExport == InitExport /\ [][NextExport]_vars

----------------------------------------------------------------------------
(* Two invocations of /import.  The event loop runs one of them at a time; *)
(* at an await the other may be resumed.  The variables of the command     *)
(* hold the state of the running invocation, `suspended` that of the       *)
(* other; the server's call logs are common to both.                       *)

FullTemplate == ServerTemplate(TRUE, OneRole, TRUE, OneCategory, TRUE, OneChannel)

\* The state of an invocation that waits; owned: the places in createCalls
\* of the calls it has issued.
Waiting(in, at) ==
    [interaction |-> in.interaction, guild |-> in.guild, remote |-> in.remote,
     pc |-> at, i |-> 0, j |-> 0, templateData |-> NullTemplate,
     sortedRoles |-> <<>>, roleMap |-> EmptyMap, categoryMap |-> EmptyMap,
     replies |-> <<>>, thrown |-> "", owned |-> {}]

InitConcurrent ==
    /\ Invoked(Input(Accepted, Destination, FullTemplate), "start")
    /\ NoExport
    /\ running = 1
    /\ suspended = Waiting(Input(Accepted, Destination, SmallTemplate), "start")

\* Mutant: one helper, hence one pair of maps, serves both invocations.
HelperShared(saved, live) == live

\* const importHelper = new ImportHelper(guild): the maps are fields of the
\* helper of the invocation; saved: those of the invocation being resumed,
\* live: those of the one that ran last.
HelperOf(saved, live) == saved

Finished(p) == p \in {"returned", "done"}

\* The running invocation is at an await or has finished; the other one,
\* not finished, continues.
Switch ==
    /\ suspended # NoInvocation
    /\ ~Finished(suspended.pc)
    /\ running' = 3 - running
    /\ suspended' =
           [interaction |-> interaction, guild |-> guild, remote |-> remote,
            pc |-> pc, i |-> i, j |-> j, templateData |-> templateData,
            sortedRoles |-> sortedRoles, roleMap |-> roleMap,
            categoryMap |-> categoryMap, replies |-> replies, thrown |-> thrown,
            owned |-> DOMAIN createCalls \ suspended.owned]
    /\ interaction' = suspended.interaction
    /\ guild' = suspended.guild
    /\ remote' = suspended.remote
    /\ pc' = suspended.pc
    /\ i' = suspended.i
    /\ j' = suspended.j
    /\ templateData' = suspended.templateData
    /\ sortedRoles' = suspended.sortedRoles
    /\ roleMap' = HelperOf([roleMap |-> suspended.roleMap,
                            categoryMap |-> suspended.categoryMap],
                           [roleMap |-> roleMap,
                            categoryMap |-> categoryMap]).roleMap
    /\ categoryMap' = HelperOf([roleMap |-> suspended.roleMap,
                                categoryMap |-> suspended.categoryMap],
                               [roleMap |-> roleMap,
                                categoryMap |-> categoryMap]).categoryMap
    /\ replies' = suspended.replies
    /\ thrown' = suspended.thrown
    /\ UNCHANGED <<deleteCalls, createCalls, exportVars>>

NextConcurrent ==
    \/ Switch
    \/ Next

SpecConcurrent == InitConcurrent /\ [][NextConcurrent]_vars

----------------------------------------------------------------------------
(* Vocabulary of the properties.                                           *)

Calls(kind) == {k \in DOMAIN createCalls : createCalls[k].kind = kind}

\* importTemplate has been called.
ImportCalled == \E k \in DOMAIN replies : replies[k] = ReplyImporting

NestedCall(c) == c.kind = "channel" /\ Len(c.src) = 2

\* 1 roles, 2 categories, 3 channels of a category, 4 uncategorized channels.
PhaseRank(c) ==
    CASE c.kind = "role" -> 1
      [] c.kind = "category" -> 2
      [] c.kind = "channel" /\ c.args.parent # "" -> 3
      [] OTHER -> 4

\* The stored overwrites of the record a category or channel call was made for.
StoredOverwrites(c) ==
    IF c.kind = "category"
    THEN templateData.categories[c.src[1]].permissionOverwrites
    ELSE IF NestedCall(c)
    THEN templateData.categories[c.src[1]].channels[c.src[2]].permissionOverwrites
    ELSE templateData.uncategorizedChannels[c.src[1]].permissionOverwrites

\* The successful role creation calls made for a role of that name.
CreatedAs(name) ==
    {k \in Calls("role") : createCalls[k].ok /\ createCalls[k].args.name = name}

Last(S) == CHOOSE k \in S : \A m \in S : m <= k

\* createRoles has returned.
RolesCreated ==
    \/ pc \in {"createCategories", "createCategoryChannels",
               "createUncategorizedChannels", "imported"}
    \/ pc \in {"catch", "done"} /\ ImportCalled /\ ~InvalidTemplate(templateData)

----------------------------------------------------------------------------
(* C1: the creation calls of one importTemplate run come in four phases    *)
(* that never overlap: roles, then categories, then the channels of the    *)
(* categories, then the uncategorized channels; a call is complete         *)
(* (resolved or rejected) before the next is issued, so the order of the   *)
(* call log is the order of completion.                                    *)
C1_PhasesNeverOverlap ==
    \A a, b \in DOMAIN createCalls :
        a < b => PhaseRank(createCalls[a]) <= PhaseRank(createCalls[b])

C1_Witness ==
    /\ pc = "done"
    /\ \A r \in 1..4 : \E k \in DOMAIN createCalls : PhaseRank(createCalls[k]) = r
    /\ \E k \in DOMAIN createCalls : ~createCalls[k].ok

(* C2, as stated: if the creation call for a Category Record fails, no     *)
(* creation call is ever issued for any of its nested Channel Records,     *)
(* also when several Category Records carry the same id.                   *)
C2_OrphanRuleAnyIds ==
    \A k \in Calls("category") :
        ~createCalls[k].ok =>
            ~\E m \in DOMAIN createCalls :
                NestedCall(createCalls[m]) /\ createCalls[m].src[1] = createCalls[k].src[1]

\* Category Record n shares its id with a record whose creation succeeded.
IdCreatedElsewhere(n) ==
    \E m \in Calls("category") :
        /\ createCalls[m].ok
        /\ templateData.categories[createCalls[m].src[1]].id = templateData.categories[n].id

(* C2, amended: if the creation call for a Category Record fails and no    *)
(* Category Record with the same id is created successfully in that        *)
(* import, no creation call is ever issued for its nested Channel Records. *)
C2_OrphanRule ==
    \A k \in Calls("category") :
        (~createCalls[k].ok /\ ~IdCreatedElsewhere(createCalls[k].src[1])) =>
            ~\E m \in DOMAIN createCalls :
                NestedCall(createCalls[m]) /\ createCalls[m].src[1] = createCalls[k].src[1]

C2_Witness ==
    /\ pc = "done"
    /\ thrown = ""
    /\ \E k \in Calls("category") :
        /\ ~createCalls[k].ok
        /\ ~IdCreatedElsewhere(createCalls[k].src[1])
        /\ templateData.categories[createCalls[k].src[1]].channels # <<>>
    /\ \E m \in DOMAIN createCalls : NestedCall(createCalls[m])

(* C3, as stated: in every category or channel creation call, an overwrite *)
(* whose id is the name of a Role Record created successfully in this      *)
(* import is sent with that role's new identifier, an overwrite whose id   *)
(* is no key of roleMap is sent with its id unchanged, and the type is     *)
(* unchanged.                                                              *)
C3_RemapToEveryCreatedRole ==
    \A k \in Calls("category") \cup Calls("channel") :
        LET stored == StoredOverwrites(createCalls[k])
            sent == createCalls[k].args.permissionOverwrites
        IN  /\ DOMAIN sent = DOMAIN stored
            /\ \A n \in DOMAIN stored :
                /\ sent[n].type = stored[n].type
                /\ \A r \in CreatedAs(stored[n].id) : sent[n].id = createCalls[r].id
                /\ CreatedAs(stored[n].id) = {} => sent[n].id = stored[n].id

(* C3, amended: an overwrite whose id is the name of one or more Role      *)
(* Records created successfully in this import is sent with the new        *)
(* identifier of the last of them to be created; any other overwrite is    *)
(* sent with its id unchanged; the type is always unchanged.               *)
C3_PermissionRemap ==
    \A k \in Calls("category") \cup Calls("channel") :
        LET stored == StoredOverwrites(createCalls[k])
            sent == createCalls[k].args.permissionOverwrites
        IN  /\ DOMAIN sent = DOMAIN stored
            /\ \A n \in DOMAIN stored :
                /\ sent[n].type = stored[n].type
                /\ sent[n].id =
                       IF CreatedAs(stored[n].id) = {}
                       THEN stored[n].id
                       ELSE createCalls[Last(CreatedAs(stored[n].id))].id

\* A call that carries a remapped overwrite, one of a role whose creation
\* failed and a member's.
C3_Witness ==
    \E k \in Calls("channel") :
        LET stored == StoredOverwrites(createCalls[k])
            sent == createCalls[k].args.permissionOverwrites
        IN  /\ \E n \in DOMAIN stored :
                stored[n].id \in RoleNames /\ sent[n].id # stored[n].id
            /\ \E n \in DOMAIN stored :
                /\ sent[n].id = stored[n].id
                /\ \E r \in Calls("role") :
                    ~createCalls[r].ok /\ createCalls[r].args.name = stored[n].id
            /\ \E n \in DOMAIN stored : stored[n].type = 1 /\ sent[n] = stored[n]

\* How many places of sequence s hold a value satisfying Test.
Count(s, Test(_)) == Cardinality({k \in DOMAIN s : Test(s[k])})

(* C4: no role creation call is ever issued for a Role Record named        *)
(* @everyone and @everyone is never a key of roleMap; once createRoles has *)
(* returned, every other Role Record has produced exactly one role         *)
(* creation call.                                                          *)
C4_RoleSkipRule ==
    /\ \A k \in Calls("role") : createCalls[k].args.name # "@everyone"
    /\ "@everyone" \notin DOMAIN roleMap
    /\ RolesCreated =>
        \A r \in TemplateRole :
            r.name # "@everyone" =>
                Cardinality({k \in Calls("role") : createCalls[k].args = r})
                    = Count(templateData.roles, LAMBDA x : x = r)

C4_Witness ==
    /\ pc = "done"
    /\ \E k \in DOMAIN templateData.roles : templateData.roles[k].name = "@everyone"
    /\ \E k \in DOMAIN templateData.roles : templateData.roles[k].name # "@everyone"
    /\ Calls("role") # {}

(* C5: importTemplate called with a document that is absent or lacks       *)
(* `roles` or lacks `categories` fails with 'Invalid template format',     *)
(* issues no creation call and leaves roleMap and categoryMap empty.       *)
C5_InvalidTemplateRejected ==
    (ImportCalled /\ pc # "importTemplate"
        /\ (templateData.isNull \/ ~templateData.hasRoles \/ ~templateData.hasCategories))
    => /\ thrown = InvalidTemplateFormat
       /\ createCalls = <<>>
       /\ roleMap = EmptyMap
       /\ categoryMap = EmptyMap

C5_Witness ==
    /\ pc = "done"
    /\ thrown = InvalidTemplateFormat
    /\ ~templateData.isNull
    /\ templateData.roles # <<>>
    /\ ~templateData.hasCategories

(* C6, as stated: when the uploaded document lacks `roles` or            *)
(* `categories`, the import command aborts before any mutation of the      *)
(* server: no deletion and no creation call has been issued when the       *)
(* failure is reported to the user.                                        *)
C6_ValidationBeforeMutation ==
    (pc = "done" /\ thrown = InvalidTemplateFormat)
    => (deleteCalls = <<>> /\ createCalls = <<>>)

\* Exactly one call of the log was made for the record at place src.
OneCall(kind, src) ==
    Cardinality({k \in Calls(kind) : createCalls[k].src = src}) = 1

\* One creation call for each record importTemplate is to create, and no other.
OneCallEach ==
    /\ \A r \in TemplateRole :
        Cardinality({k \in Calls("role") : createCalls[k].args = r})
            = IF r.name = "@everyone" THEN 0
              ELSE Count(templateData.roles, LAMBDA x : x = r)
    /\ \A k \in DOMAIN templateData.categories :
        /\ OneCall("category", <<k>>)
        /\ \A n \in DOMAIN templateData.categories[k].channels :
            IF templateData.categories[k].id \in DOMAIN categoryMap
            THEN OneCall("channel", <<k, n>>)
            ELSE ~\E m \in Calls("channel") : createCalls[m].src = <<k, n>>
    /\ \A k \in DOMAIN templateData.uncategorizedChannels :
        OneCall("channel", <<k>>)
    /\ \A k \in DOMAIN createCalls :
        LET c == createCalls[k] IN
        CASE c.kind = "role" -> TRUE
          [] c.kind = "category" -> c.src[1] \in DOMAIN templateData.categories
          [] NestedCall(c) ->
                /\ c.src[1] \in DOMAIN templateData.categories
                /\ c.src[2] \in DOMAIN templateData.categories[c.src[1]].channels
          [] OTHER -> c.src[1] \in DOMAIN templateData.uncategorizedChannels

(* C7, as stated: for any document that passes the upfront validation and  *)
(* any pattern of failing creation calls, importTemplate never aborts      *)
(* mid-run; it completes normally after exactly one creation call for      *)
(* every non-@everyone Role Record, every Category Record, every Channel   *)
(* Record nested in a category whose id is mapped, and every uncategorized *)
(* Channel Record.                                                         *)
C7_FailuresIsolated ==
    (ImportCalled /\ pc # "importTemplate" /\ ~InvalidTemplate(templateData))
    => /\ thrown = ""
       /\ pc # "catch"
       /\ pc \in {"imported", "done"} => OneCallEach

----------------------------------------------------------------------------
(* The cleanup step.                                                       *)

Deleted(kind) ==
    {deleteCalls[k].id : k \in {m \in DOMAIN deleteCalls : deleteCalls[m].kind = kind}}

\* The role is positioned strictly below the bot's own highest role.
BelowBot(r) ==
    \E k \in DOMAIN guild.roles :
        guild.roles[k].id = guild.botRole /\ r.position < guild.roles[k].position

RoleMayGo(r) == r.id # EveryoneId /\ r.id # guild.botRole /\ BelowBot(r)

ChannelMayGo(ch) == ch.present /\ ch.id # guild.systemChannelId /\ ch.deletable

\* Both cleanup loops have run to their end.
CleanupCompleted ==
    /\ pc \notin {"start", "returned", "fetchChannels", "cleanChannels", "cleanRoles"}
    /\ thrown \notin {FetchChannelsRejected, FetchRolesRejected}

DeletesWithinPolicy ==
    /\ \A k \in DOMAIN guild.roles :
        guild.roles[k].id \in Deleted("role") => RoleMayGo(guild.roles[k])
    /\ \A k \in DOMAIN guild.channels :
        guild.channels[k].id \in Deleted("channel") => ChannelMayGo(guild.channels[k])
    /\ Deleted("role") \subseteq Ids(guild.roles)
    /\ Deleted("channel") \subseteq Ids(guild.channels)

(* C8, as stated: a delete call is issued for a role only if it is not     *)
(* @everyone, not the bot's highest role and strictly below it, and for a  *)
(* channel only if it is not the system channel and is deletable by the    *)
(* caller; conversely every role and channel meeting these conditions      *)
(* receives a delete call.                                                 *)
C8_PolicyBothWays ==
    /\ DeletesWithinPolicy
    /\ CleanupCompleted =>
        /\ \A k \in DOMAIN guild.roles :
            RoleMayGo(guild.roles[k]) => guild.roles[k].id \in Deleted("role")
        /\ \A k \in DOMAIN guild.channels :
            ChannelMayGo(guild.channels[k]) => guild.channels[k].id \in Deleted("channel")

(* C8, amended: the only-if part as stated; conversely, once the cleanup   *)
(* loops have run to their end, every channel meeting the conditions has   *)
(* received a delete call, and so has every role meeting them that is      *)
(* also editable by the bot (role.editable).                               *)
C8_CleanerPolicy ==
    /\ DeletesWithinPolicy
    /\ CleanupCompleted =>
        /\ \A k \in DOMAIN guild.roles :
            (RoleMayGo(guild.roles[k]) /\ guild.roles[k].editable)
                => guild.roles[k].id \in Deleted("role")
        /\ \A k \in DOMAIN guild.channels :
            ChannelMayGo(guild.channels[k]) => guild.channels[k].id \in Deleted("channel")

C8_Witness ==
    /\ CleanupCompleted
    /\ Deleted("role") # {}
    /\ Deleted("channel") # {}
    /\ \E k \in DOMAIN guild.roles :
        /\ RoleMayGo(guild.roles[k])
        /\ ~guild.roles[k].editable
        /\ guild.roles[k].id \notin Deleted("role")

\* The deletions due after the first nc channels and nr roles of the fetched
\* collections, in order.
DueDeletes(nc, nr) ==
    LET ch == SelectSeq(SubSeq(guild.channels, 1, nc), LAMBDA x : ChannelEligible(guild, x))
        ro == SelectSeq(SubSeq(guild.roles, 1, nr), LAMBDA x : RoleEligible(guild, x))
    IN  [k \in DOMAIN ch |-> <<"channel", ch[k].id>>]
            \o [k \in DOMAIN ro |-> <<"role", ro[k].id>>]

ChannelsVisited ==
    CASE pc \in {"start", "returned", "fetchChannels"} -> 0
      [] pc = "cleanChannels" -> i - 1
      [] thrown = FetchChannelsRejected -> 0
      [] OTHER -> Len(guild.channels)

RolesVisited ==
    CASE pc \in {"start", "returned", "fetchChannels", "cleanChannels"} -> 0
      [] pc = "cleanRoles" -> i - 1
      [] thrown \in {FetchChannelsRejected, FetchRolesRejected} -> 0
      [] OTHER -> Len(guild.roles)

\* Every eligible entity the loops have passed has had one delete call,
\* whatever the outcomes of the calls before it.
OneAttemptEach ==
    [k \in DOMAIN deleteCalls |-> <<deleteCalls[k].kind, deleteCalls[k].id>>]
        = DueDeletes(ChannelsVisited, RolesVisited)

(* C9: in the cleanup step each eligible channel and role gets exactly one *)
(* deletion attempt; a failed deletion neither aborts nor skips any of the *)
(* remaining deletions, does not surface as a command failure, and the     *)
(* command goes on to the import step.                                     *)
C9_BestEffortDeletion ==
    /\ []OneAttemptEach
    /\ [][deleteCalls' # deleteCalls => (pc' = pc /\ thrown' = thrown)]_vars

C9_Witness ==
    /\ ImportCalled
    /\ \E a, b \in DOMAIN deleteCalls : a < b /\ ~deleteCalls[a].ok
    /\ \E a \in DOMAIN deleteCalls : ~deleteCalls[a].ok /\ deleteCalls[a].kind = "role"

(* C10: invoked outside a server, or by an invoker without Administrator   *)
(* permission, or without an attached document, the command reports the    *)
(* problem to the user and returns with no mutation attempted: no          *)
(* deletion and no creation call is issued.                                *)
C10_PreconditionError ==
    (~interaction.guild \/ ~interaction.admin \/ ~interaction.attachment)
    => /\ pc \in {"start", "returned"}
       /\ deleteCalls = <<>>
       /\ createCalls = <<>>
       /\ pc = "returned" =>
            /\ Len(replies) = 1
            /\ \/ ~interaction.guild /\ replies[1] = ReplyNoGuild
               \/ ~interaction.admin /\ replies[1] = ReplyNotAdmin
               \/ ~interaction.attachment /\ replies[1] = ReplyNoAttachment

C10_Witness ==
    /\ pc = "returned"
    /\ interaction.guild
    /\ ~interaction.admin
    /\ interaction.attachment
    /\ \E k \in DOMAIN guild.channels : ChannelMayGo(guild.channels[k])

(* C11: the role creation calls are issued in non-increasing order of the  *)
(* Role Records' position, whatever the order of roles in the document,    *)
(* records of equal position in document order; each call carries the      *)
(* record's own name, color, hoist, position, permissions and mentionable. *)
RoleCalls == SelectSeq(createCalls, LAMBDA c : c.kind = "role")

\* The places in template.roles of the records a role is created for.
RolePlaces ==
    {k \in DOMAIN templateData.roles : templateData.roles[k].name # "@everyone"}

\* The record at place x is processed before the record at place y.
ProcessedBefore(x, y) ==
    \/ templateData.roles[x].position > templateData.roles[y].position
    \/ /\ templateData.roles[x].position = templateData.roles[y].position
       /\ x < y

\* place[k] is the place in the document of the record call k was made for.
CallPlaces(place) ==
    /\ \A k \in DOMAIN place :
          LET r == templateData.roles[place[k]]
              a == RoleCalls[k].args
          IN /\ DOMAIN a = {"name", "color", "hoist", "position",
                            "permissions", "mentionable"}
             /\ a.name = r.name
             /\ a.color = r.color
             /\ a.hoist = r.hoist
             /\ a.position = r.position
             /\ a.permissions = r.permissions
             /\ a.mentionable = r.mentionable
    /\ \A a, b \in DOMAIN place : a < b => ProcessedBefore(place[a], place[b])
    /\ \A x \in RolePlaces :
          \/ \E k \in DOMAIN place : place[k] = x
          \/ ~RolesCreated /\ \A k \in DOMAIN place : ProcessedBefore(place[k], x)

C11_RoleCreationOrder ==
    /\ \A k \in 1..(Len(RoleCalls) - 1) :
          RoleCalls[k].args.position >= RoleCalls[k + 1].args.position
    /\ \E place \in [DOMAIN RoleCalls -> RolePlaces] : CallPlaces(place)

\* Two records in ascending order of position, created in the reverse order.
C11_Witness ==
    /\ RolesCreated
    /\ Len(templateData.roles) = 2
    /\ templateData.roles[1].position < templateData.roles[2].position
    /\ templateData.roles[1].color # templateData.roles[2].color
    /\ Len(RoleCalls) = 2
    /\ RoleCalls[1].args.position = templateData.roles[2].position
    /\ RoleCalls[1].args.color = templateData.roles[2].color
    /\ RoleCalls[2].args.color = templateData.roles[1].color

(* C13, as stated: if two Role Records of the template share a name, then  *)
(* after the role-creation phase roleMap holds for that name the           *)
(* identifier of the later-processed one ("" where that one has none and  *)
(* the name has no entry).                                                 *)
SharedNames ==
    {n \in RoleNames \ {"@everyone"} :
        \E a, b \in DOMAIN templateData.roles :
            /\ a # b
            /\ templateData.roles[a].name = n
            /\ templateData.roles[b].name = n}

\* The role creation calls made for a record of that name.
AttemptedAs(name) == {k \in Calls("role") : createCalls[k].args.name = name}

C13_LaterProcessedMapped ==
    RolesCreated =>
        \A n \in SharedNames :
            MapGet(roleMap, n) = createCalls[Last(AttemptedAs(n))].id

\* The overwrites naming n are sent as id in every category and channel call.
SentAs(n, id) ==
    \A c \in Calls("category") \cup Calls("channel") :
        \A k \in DOMAIN StoredOverwrites(createCalls[c]) :
            StoredOverwrites(createCalls[c])[k].id = n
            => createCalls[c].args.permissionOverwrites[k].id = id

(* C13, amended: if two Role Records of the template share a name, then    *)
(* after the role-creation phase roleMap holds for that name the           *)
(* identifier of the later-processed record among those whose creation     *)
(* succeeded (processing order = descending position), and every overwrite *)
(* naming it is translated to that identifier; if no creation of that name *)
(* succeeded, roleMap has no entry and the overwrite is sent unchanged.    *)
C13_DuplicateRoleNames ==
    RolesCreated =>
        \A n \in SharedNames :
            LET S == CreatedAs(n) IN
            IF S = {}
            THEN n \notin DOMAIN roleMap /\ SentAs(n, n)
            ELSE /\ n \in DOMAIN roleMap
                 /\ roleMap[n] = createCalls[Last(S)].id
                 /\ \A k \in S :
                       /\ createCalls[k].src[1] <= createCalls[Last(S)].src[1]
                       /\ createCalls[k].args.position
                            >= createCalls[Last(S)].args.position
                 /\ SentAs(n, roleMap[n])

\* Two records named Admin at different positions, both created; a category
\* whose overwrite names Admin has been sent with the later role's id.
C13_Witness ==
    /\ pc = "imported"
    /\ "Admin" \in SharedNames
    /\ Cardinality(CreatedAs("Admin")) = 2
    /\ \E a, b \in CreatedAs("Admin") :
          /\ a < b
          /\ createCalls[a].args.position > createCalls[b].args.position
          /\ roleMap["Admin"] = createCalls[b].id
          /\ \E c \in Calls("category") :
                \E k \in DOMAIN createCalls[c].args.permissionOverwrites :
                    createCalls[c].args.permissionOverwrites[k].id = createCalls[b].id

(* C12: the exported document holds one Role Record per fetched role, one  *)
(* Category Record per category-type channel, and every other fetched      *)
(* channel in exactly one place: once in the channels list of its parent   *)
(* category and nowhere else, or, without a parent, once in                *)
(* uncategorizedChannels; no category-type channel is in                   *)
(* uncategorizedChannels; the lengths are the numbers of such channels.    *)
Named(list, name) == Len(SelectSeq(list, LAMBDA r : r.name = name))

ChannelsWhere(Test(_)) ==
    Cardinality({n \in DOMAIN sourceGuild.channels : Test(sourceGuild.channels[n])})

\* The live channel ch is in the document t where it belongs, and only there.
PlacedOnce(t, ch) ==
    /\ Cardinality({c \in DOMAIN t.categories : t.categories[c].id = ch.id})
         = IF ch.type = GuildCategory THEN 1 ELSE 0
    /\ \A c \in DOMAIN t.categories :
          Named(t.categories[c].channels, ch.name)
            = IF ch.type # GuildCategory /\ ch.parentId = t.categories[c].id
              THEN 1 ELSE 0
    /\ Named(t.uncategorizedChannels, ch.name)
         = IF ch.type # GuildCategory /\ ch.parentId = "" THEN 1 ELSE 0

C12_ExporterPartition ==
    ExportedFiles # <<>> =>
        LET t == ExportedFiles[1] IN
        /\ Len(t.roles) = Len(sourceGuild.roles)
        /\ \A k \in DOMAIN t.roles : t.roles[k].name = sourceGuild.roles[k].name
        /\ Len(t.categories) = ChannelsWhere(LAMBDA ch : ch.type = GuildCategory)
        /\ \A n \in DOMAIN sourceGuild.channels : PlacedOnce(t, sourceGuild.channels[n])
        /\ \A c \in DOMAIN t.categories :
              Len(t.categories[c].channels)
                = ChannelsWhere(LAMBDA ch : ch.parentId = t.categories[c].id)
        /\ Len(t.uncategorizedChannels)
             = ChannelsWhere(LAMBDA ch : ch.parentId = "" /\ ch.type # GuildCategory)

\* Two roles besides @everyone, a category with one channel, a channel
\* without parent.
C12_Witness ==
    /\ ExportedFiles # <<>>
    /\ Len(sourceGuild.roles) = 3
    /\ Len(sourceGuild.channels) = 3
    /\ Len(ExportedFiles[1].roles) = 3
    /\ Len(ExportedFiles[1].categories) = 1
    /\ Len(ExportedFiles[1].categories[1].channels) = 1
    /\ Len(ExportedFiles[1].uncategorizedChannels) = 1

(* C15: the exporter writes every overwrite's id as the live subject       *)
(* identifier (for a role-scoped overwrite the source role's identifier,   *)
(* not its name); the importer's roleMap is keyed by role name only; so,   *)
(* when an exported document is imported, an overwrite's id is rewritten   *)
(* only if it equals the name of a role created in that import, and        *)
(* otherwise the creation call carries the source identifier unchanged.    *)
SourceRoleIds == {sourceGuild.roles[k].id : k \in DOMAIN sourceGuild.roles}

\* The overwrites of a record of the file written for the live channel ch.
LiveIds(record, ch) ==
    /\ DOMAIN record.permissionOverwrites = DOMAIN ch.permissionOverwrites
    /\ \A k \in DOMAIN ch.permissionOverwrites :
          /\ record.permissionOverwrites[k].id = ch.permissionOverwrites[k].id
          /\ record.permissionOverwrites[k].type = ch.permissionOverwrites[k].type
          /\ record.permissionOverwrites[k].type = 0
                => record.permissionOverwrites[k].id \in SourceRoleIds

ExportedWithLiveIds(t) ==
    \A n \in DOMAIN sourceGuild.channels :
        LET ch == sourceGuild.channels[n] IN
        /\ \A c \in DOMAIN t.categories :
              /\ t.categories[c].id = ch.id => LiveIds(t.categories[c], ch)
              /\ \A k \in DOMAIN t.categories[c].channels :
                    t.categories[c].channels[k].name = ch.name
                    => LiveIds(t.categories[c].channels[k], ch)
        /\ \A k \in DOMAIN t.uncategorizedChannels :
              t.uncategorizedChannels[k].name = ch.name
              => LiveIds(t.uncategorizedChannels[k], ch)

\* The ids sent with the category and channel calls of the import.
ImportedByName ==
    \A c \in Calls("category") \cup Calls("channel") :
        \A k \in DOMAIN StoredOverwrites(createCalls[c]) :
            LET stored == StoredOverwrites(createCalls[c])[k].id
                sent == createCalls[c].args.permissionOverwrites[k].id
            IN IF CreatedAs(stored) # {}
               THEN sent = createCalls[Last(CreatedAs(stored))].id
               ELSE sent = stored

C15_ExportImportOverwrites ==
    /\ ExportedFiles # <<>> => ExportedWithLiveIds(ExportedFiles[1])
    /\ DOMAIN roleMap \subseteq
          {templateData.roles[k].name : k \in DOMAIN templateData.roles}
    /\ ImportedByName

\* The source role r1 is named Admin; Admin has been created in the import,
\* yet the overwrite for r1 has been sent with the id r1.
C15_Witness ==
    /\ pc = "imported"
    /\ \E k \in DOMAIN sourceGuild.roles :
          sourceGuild.roles[k].id = "r1" /\ sourceGuild.roles[k].name = "Admin"
    /\ CreatedAs("Admin") # {}
    /\ CreatedAs("r1") = {}
    /\ \E c \in Calls("channel") :
          \E k \in DOMAIN StoredOverwrites(createCalls[c]) :
              /\ StoredOverwrites(createCalls[c])[k].id = "r1"
              /\ createCalls[c].args.permissionOverwrites[k].id = "r1"

(* C14: when two import commands run interleaved, each invocation has its  *)
(* own roleMap and categoryMap: an overwrite translated by one invocation  *)
(* resolves only to the id of a role created by that invocation, and a     *)
(* nested channel is parented only to a category created by that           *)
(* invocation, in every interleaving of their awaited calls.               *)
Invocations == {1, 2}

\* The places in createCalls of the calls issued by invocation p.
OwnedBy(p) ==
    IF suspended = NoInvocation THEN DOMAIN createCalls
    ELSE IF p = running THEN DOMAIN createCalls \ suspended.owned
    ELSE suspended.owned

\* The ids of the entities of that kind created by the calls at places S.
IdsCreated(kind, S) ==
    {createCalls[k].id : k \in {c \in S : createCalls[c].kind = kind /\ createCalls[c].ok}}

MapValues(m) == {m[k] : k \in DOMAIN m}

\* The two maps invocation p works with.
MapsOf(p) ==
    IF p = running \/ suspended = NoInvocation
    THEN [roleMap |-> roleMap, categoryMap |-> categoryMap]
    ELSE [roleMap |-> suspended.roleMap, categoryMap |-> suspended.categoryMap]

OwnMaps(p) ==
    /\ MapValues(MapsOf(p).roleMap) \subseteq IdsCreated("role", OwnedBy(p))
    /\ MapValues(MapsOf(p).categoryMap) \subseteq IdsCreated("category", OwnedBy(p))

\* No call of p carries the id of a role or category another invocation created.
OwnIdsSent(p) ==
    \A c \in OwnedBy(p) :
        createCalls[c].kind \in {"category", "channel"} =>
            /\ \A k \in DOMAIN createCalls[c].args.permissionOverwrites :
                  LET sent == createCalls[c].args.permissionOverwrites[k].id IN
                  sent \in IdsCreated("role", DOMAIN createCalls)
                  => sent \in IdsCreated("role", OwnedBy(p))
            /\ createCalls[c].args.parent # ""
                  => createCalls[c].args.parent \in IdsCreated("category", OwnedBy(p))

C14_PerInvocationMaps ==
    \A p \in Invocations : OwnMaps(p) /\ OwnIdsSent(p)

\* Both invocations have created a role Admin and a category c1; after
\* that, invocation 1 has issued a nested channel call, parented to its own
\* category and carrying the id of its own role.
C14_Witness ==
    /\ suspended # NoInvocation
    /\ \A p \in Invocations :
          /\ IdsCreated("role", OwnedBy(p)) # {}
          /\ IdsCreated("category", OwnedBy(p)) # {}
    /\ \E c \in OwnedBy(1) :
          /\ createCalls[c].kind = "channel"
          /\ createCalls[c].args.parent \in IdsCreated("category", OwnedBy(1))
          /\ \E k \in DOMAIN createCalls[c].args.permissionOverwrites :
                createCalls[c].args.permissionOverwrites[k].id
                    \in IdsCreated("role", OwnedBy(1))
          /\ \A d \in OwnedBy(2) :
                createCalls[d].kind \in {"role", "category"} => d < c

====
